---- MODULE Spec2Model ----
(***************************************************************************)
(* State-machine model of the SmartCast device session of src/index.js:    *)
(* the closure state of one SMARTCAST object, the promise each call        *)
(* returns, the HTTP requests it sends and the handlers run on the answers.*)
(* One action is one run-to-completion step of the JavaScript event loop:  *)
(* a method call, or the arrival of one HTTP answer together with the      *)
(* promise reactions that run after it.                                    *)
(***************************************************************************)
EXTENDS Integers, Sequences, FiniteSets, TLC

VARIABLES
    _authKey,              \* closure variable _authKey
    _pairingRequestToken,  \* closure variable _pairingRequestToken
    _deviceId,             \* closure variable _deviceId
    _deviceName,           \* closure variable _deviceName
    calls,                 \* the method calls made so far, each with its promise
    net,                   \* every HTTP request sent so far, with its answer
    ctorArg,               \* history: the authKey argument of the constructor
    lastUse,               \* history: argument of the latest useAuthToken call
    devInputs,             \* device: its input list
    devHash,               \* device: HASHVAL of the current_input item
    lastReadHash,          \* history: HASHVAL seen by the latest completed current_input read
    faults                 \* environment: whether the device and the transport may fail

vars == << _authKey, _pairingRequestToken, _deviceId, _deviceName, calls, net,
           ctorArg, lastUse, devInputs, devHash, lastReadHash, faults >>

session == << _authKey, _pairingRequestToken, _deviceId, _deviceName >>
history == << ctorArg, lastUse >>
device == << devInputs, devHash, lastReadHash, faults >>

-----------------------------------------------------------------------------
(* Bounds of the model *)

\* number of method calls in a run of the whole session
MaxCalls == 2
\* number of pairing calls in a run of the pairing handshake
MaxPairCalls == 3
\* number of input calls in a run of the input accessors
MaxInputCalls == 3
\* number of volume calls in a run of the volume accessors
MaxVolumeCalls == 2
\* length of the device's input list
MaxItems == 2
\* number of calls in a run of the input lookup
MaxLookupCalls == 1
\* number of calls in a run of the request headers
MaxAuthCalls == 2

-----------------------------------------------------------------------------
(* JavaScript values *)

\* undefined / null / omitted argument
Null == "<undefined>"

\* JS truthiness of a string-or-undefined value
Truthy(v) == v # Null /\ v # ""

\* JS `v || d`
OrElse(v, d) == IF Truthy(v) THEN v ELSE d

\* a request sent without headers
NoHeader == "<no AUTH header>"

\* a GET carries no body
NoBody == [none |-> TRUE]

\* 'node-app-' + new Date().getTime()
DefaultDevice == "node-app-<time>"

AuthTokens == {"authA", "authB"}
ReqTokens == {"req1", "req2"}
Pins == {"1234", "0000"}

\* no current_input read has completed yet
NoHash == 0 - 1

HasField(o, f) == f \in DOMAIN o

\* promise settlement values
NoValue == [kind |-> "none"]
Response(data) == [kind |-> "response", data |-> data]
Message(text) == [kind |-> "message", text |-> text]
TypeError == [kind |-> "TypeError"]
TransportError(why) == [kind |-> "error", cause |-> why]
\* request-promise-native rejects on a transport error and on a non-2xx status
TransportErrors ==
    IF faults THEN {TransportError("RequestError"), TransportError("StatusCodeError")} ELSE {}

BlockedMessage == Message("Failed to initiate the pairing process because a pairing request has already been initiated.")

PATH_POWER == "/state/device/power_mode"
PATH_START == "/pairing/start"
PATH_PAIR == "/pairing/pair"
PATH_INPUT == "/menu_native/dynamic/audio_settings/input"
PATH_CURRENT == "/menu_native/dynamic/audio_settings/input/current_input"
PATH_KEY == "/key_command/"
PATH_VOLUME_GET == "/menu_native/dynamic/audio_settings/audio/volume"
PATH_VOLUME_PUT == "/menu_native/dynamic/tv_settings/audio/volume"
PATH_MUTE == "/menu_native/dynamic/tv_settings/audio/mute"

-----------------------------------------------------------------------------
(* The transport primitive *)

\* sendRequest with the header attached whatever the token
sendRequest_AlwaysHeader(call, role, method, url, authKey, data) ==
    [ call |-> call, role |-> role, method |-> method, url |-> url,
      body |-> data, AUTH |-> authKey,
      state |-> "inflight", answer |-> NoValue ]

\* sendRequest(method, url, authKey, data): the request object handed to the
\* transport; `call` and `role` record which call sent it and as which step.
sendRequest(call, role, method, url, authKey, data) ==
    [ call |-> call, role |-> role, method |-> method, url |-> url,
      body |-> data,
      AUTH |-> IF Truthy(authKey) THEN authKey ELSE NoHeader,
      state |-> "inflight", answer |-> NoValue ]

NewCall(op, arg) ==
    [ op |-> op, arg |-> arg, promise |-> "pending", value |-> NoValue,
      list |-> NoValue, current |-> NoValue ]

Settle(c, how, v) == [c EXCEPT !.promise = how, !.value = v]

\* resolve/reject of a `new Promise` executor: only the first settlement counts
SettleOnce(c, how, v) == IF c.promise = "pending" THEN Settle(c, how, v) ELSE c

Answered(r, ans) ==
    [r EXCEPT !.state = IF ans.kind = "response" THEN "ok" ELSE "failed",
              !.answer = ans]

InFlight(role) == {i \in 1..Len(net) : net[i].role = role /\ net[i].state = "inflight"}

-----------------------------------------------------------------------------
(* Pairing *)

DeviceArgs == {<<Null, Null>>, <<"remote", "id-1">>}

\* answers the device can give to PUT /pairing/start
InitiateBodies ==
    {[STATUS |-> [RESULT |-> "SUCCESS"], ITEM |-> [PAIRING_REQ_TOKEN |-> t]] : t \in ReqTokens}
    \cup {[STATUS |-> [RESULT |-> "BLOCKED"]], [STATUS |-> [RESULT |-> "FAILURE"]]}

\* answers the device can give to PUT /pairing/pair
PairBodies ==
    {[STATUS |-> [RESULT |-> "SUCCESS"], ITEM |-> [AUTH_TOKEN |-> t]] : t \in AuthTokens}
    \cup {[STATUS |-> [RESULT |-> "FAILURE"]]}

\* the initiate handler without the BLOCKED branch
InitiateThen_BlockedGeneric(data, tok) ==
    IF data.STATUS.RESULT = "SUCCESS"
    THEN [tok |-> data.ITEM.PAIRING_REQ_TOKEN, how |-> "resolved", value |-> Response(data)]
    ELSE [tok |-> tok, how |-> "rejected", value |-> Response(data)]

\* the initiate handler dropping the stored token on a non-success answer
InitiateThen_ClearsOnFailure(data, tok) ==
    IF data.STATUS.RESULT = "SUCCESS"
    THEN [tok |-> data.ITEM.PAIRING_REQ_TOKEN, how |-> "resolved", value |-> Response(data)]
    ELSE IF data.STATUS.RESULT = "BLOCKED"
         THEN [tok |-> "", how |-> "rejected", value |-> BlockedMessage]
         ELSE [tok |-> "", how |-> "rejected", value |-> Response(data)]

\* the .then handler of pairing.initiate: the new _pairingRequestToken and
\* the settlement of the returned promise
InitiateThen(data, tok) ==
    IF data.STATUS.RESULT = "SUCCESS"
    THEN [tok |-> data.ITEM.PAIRING_REQ_TOKEN, how |-> "resolved", value |-> Response(data)]
    ELSE IF data.STATUS.RESULT = "BLOCKED"
         THEN [tok |-> tok, how |-> "rejected", value |-> BlockedMessage]
         ELSE [tok |-> tok, how |-> "rejected", value |-> Response(data)]

\* the pair handler storing the pairing-request token as the auth token
PairThen_StoresRequestToken(data, key, tok) ==
    IF data.STATUS.RESULT = "SUCCESS"
    THEN [key |-> tok, how |-> "resolved", value |-> Response(data)]
    ELSE [key |-> key, how |-> "rejected", value |-> Response(data)]

\* the .then handler of pairing.pair: the new _authKey and the settlement
PairThen(data, key, tok) ==
    IF data.STATUS.RESULT = "SUCCESS"
    THEN [key |-> data.ITEM.AUTH_TOKEN, how |-> "resolved", value |-> Response(data)]
    ELSE [key |-> key, how |-> "rejected", value |-> Response(data)]

PairingInitiate(max) ==
    /\ Len(calls) < max
    /\ \E a \in DeviceArgs :
         LET name == OrElse(a[1], DefaultDevice)
             id == OrElse(a[2], DefaultDevice)
             data == [DEVICE_NAME |-> name, DEVICE_ID |-> id]
         IN /\ _deviceName' = name
            /\ _deviceId' = id
            /\ calls' = Append(calls, NewCall("pairing.initiate", a))
            /\ net' = Append(net, sendRequest(Len(calls) + 1, "initiate", "put", PATH_START, Null, data))
    /\ UNCHANGED << _authKey, _pairingRequestToken, history, device >>

PairingPair(max) ==
    /\ Len(calls) < max
    /\ \E pin \in Pins :
         LET data == [DEVICE_ID |-> _deviceId, CHALLENGE_TYPE |-> 1,
                      RESPONSE_VALUE |-> pin, PAIRING_REQ_TOKEN |-> _pairingRequestToken]
         IN /\ calls' = Append(calls, NewCall("pairing.pair", pin))
            /\ net' = Append(net, sendRequest(Len(calls) + 1, "pair", "put", PATH_PAIR, Null, data))
    /\ UNCHANGED << session, history, device >>

UseAuthToken(max) ==
    /\ Len(calls) < max
    /\ \E key \in AuthTokens \cup {""} :
         /\ _authKey' = key
         /\ lastUse' = key
         /\ calls' = Append(calls, Settle(NewCall("pairing.useAuthToken", key), "returned", NoValue))
    /\ UNCHANGED << _pairingRequestToken, _deviceId, _deviceName, net, ctorArg, device >>

\* the transport rejects: the .then handler is skipped, the promise rejects
FailPassThrough(role) ==
    \E i \in InFlight(role), e \in TransportErrors :
       /\ net' = [net EXCEPT ![i] = Answered(@, e)]
       /\ calls' = [calls EXCEPT ![net[i].call] = Settle(@, "rejected", e)]
       /\ UNCHANGED << session, history, device >>

DeliverInitiate ==
    \E i \in InFlight("initiate"), data \in InitiateBodies :
       LET out == InitiateThen(data, _pairingRequestToken)
       IN /\ net' = [net EXCEPT ![i] = Answered(@, Response(data))]
          /\ _pairingRequestToken' = out.tok
          /\ calls' = [calls EXCEPT ![net[i].call] = Settle(@, out.how, out.value)]
          /\ UNCHANGED << _authKey, _deviceId, _deviceName, history, device >>

DeliverPair ==
    \E i \in InFlight("pair"), data \in PairBodies :
       LET out == PairThen(data, _authKey, _pairingRequestToken)
       IN /\ net' = [net EXCEPT ![i] = Answered(@, Response(data))]
          /\ _authKey' = out.key
          /\ calls' = [calls EXCEPT ![net[i].call] = Settle(@, out.how, out.value)]
          /\ UNCHANGED << _pairingRequestToken, _deviceId, _deviceName, history, device >>

FailInitiate == FailPassThrough("initiate")
FailPair == FailPassThrough("pair")

-----------------------------------------------------------------------------
(* Input names and the lookup *)

\* String.prototype.toLowerCase, one character
LowerChar(ch) ==
    CASE ch = "A" -> "a"
      [] ch = "B" -> "b"
      [] OTHER -> ch

\* String.prototype.toLowerCase; a string is the sequence of its characters
toLowerCase(s) == [i \in 1..Len(s) |-> LowerChar(s[i])]

NamePool == {<<"a">>, <<"A">>, <<"b">>}
ItemPool == {[NAME |-> n, VALUE |-> [NAME |-> v]] : n \in NamePool, v \in NamePool}
InputLists == UNION {[1..n -> ItemPool] : n \in 0..MaxItems}

Found(v) == [kind |-> "value", value |-> v]
NotFound == [kind |-> "null"]
Throws == [kind |-> "throw"]

\* JS `!x` of a lookup result: null, or the empty string
Falsy(x) == x.kind = "null" \/ (x.kind = "value" /\ Len(x.value) = 0)

\* first loop of findInputByName: search by internal name, from index i
RECURSIVE searchInternal(_, _, _)
searchInternal(name, items, i) ==
    IF i > Len(items) THEN NotFound
    ELSE IF toLowerCase(items[i].NAME) = toLowerCase(name) THEN Found(items[i].NAME)
    ELSE searchInternal(name, items, i + 1)

\* second loop of findInputByName: search by user name, from index i
RECURSIVE searchUser(_, _, _)
searchUser(name, items, i) ==
    IF i > Len(items) THEN NotFound
    ELSE IF toLowerCase(items[i].VALUE.NAME) = toLowerCase(name) THEN Found(items[i].NAME)
    ELSE searchUser(name, items, i + 1)

\* findInputByName with the two searches in the other order
findInputByName_UserNameFirst(name, list) ==
    IF ~HasField(list, "ITEMS") THEN Throws
    ELSE LET first == searchUser(name, list.ITEMS, 1)
         IN IF first.kind = "value" THEN first ELSE searchInternal(name, list.ITEMS, 1)

\* findInputByName(name, list); list.ITEMS.length throws when ITEMS is missing
findInputByName(name, list) ==
    IF ~HasField(list, "ITEMS") THEN Throws
    ELSE LET first == searchInternal(name, list.ITEMS, 1)
         IN IF first.kind = "value" THEN first ELSE searchUser(name, list.ITEMS, 1)

-----------------------------------------------------------------------------
(* The input accessors *)

\* answers the device can give to GET .../input
ListBodies ==
    { [STATUS |-> [RESULT |-> "SUCCESS"], ITEMS |-> devInputs] }
    \cup IF faults
         THEN { [STATUS |-> [RESULT |-> "FAILURE"], ITEMS |-> devInputs],
                [STATUS |-> [RESULT |-> "FAILURE"]] }
         ELSE {}

\* answers the device can give to GET .../input/current_input
CurrentBodies ==
    { [STATUS |-> [RESULT |-> "SUCCESS"], ITEMS |-> << [HASHVAL |-> devHash] >>] }
    \cup IF faults THEN { [STATUS |-> [RESULT |-> "FAILURE"]] } ELSE {}

\* the device's answer to PUT .../current_input: accepted when the HASHVAL is
\* the item's present one, refused when it is stale
ModifyBody(req) ==
    IF req.body.HASHVAL = devHash
    THEN [STATUS |-> [RESULT |-> "SUCCESS"]]
    ELSE [STATUS |-> [RESULT |-> "FAILURE"]]

\* the HASHVAL of the current_input item after the device handled the modify
HashAfter(req) == IF req.body.HASHVAL = devHash THEN devHash + 1 ELSE devHash

\* the HASHVAL a completed current_input read showed the session
ReadHash(ans, old) ==
    IF ans.kind = "response" /\ HasField(ans.data, "ITEMS") /\ Len(ans.data.ITEMS) > 0
    THEN ans.data.ITEMS[1].HASHVAL
    ELSE old

Structured(inputList, currentInput) ==
    [kind |-> "structured", list |-> inputList, current |-> currentInput]

InputNotFound(name) == [kind |-> "message", text |-> "Input: <name> not found", name |-> name]

\* the modify body with the HASHVAL of a read shared by the session
inputModifyData_CachedHash(inputName, currentInput) ==
    [REQUEST |-> "MODIFY", VALUE |-> inputName, HASHVAL |-> lastReadHash]

\* the body of the modify request of input.set
inputModifyData(inputName, currentInput) ==
    [REQUEST |-> "MODIFY", VALUE |-> inputName, HASHVAL |-> currentInput.ITEMS[1].HASHVAL]

\* the .then handler of Promise.all in input.set: how the returned promise
\* settles and the request it sends
inputSetThen(id, name, inputList, currentInput, key) ==
    LET inputName == findInputByName(name, inputList)
    IN IF inputName.kind = "throw"
       THEN [how |-> "rejected", value |-> TypeError, send |-> << >>]
       ELSE IF inputList.STATUS.RESULT # "SUCCESS" \/ currentInput.STATUS.RESULT # "SUCCESS"
       THEN [how |-> "rejected", value |-> Structured(inputList, currentInput), send |-> << >>]
       ELSE IF Falsy(inputName)
       THEN [how |-> "rejected", value |-> InputNotFound(name), send |-> << >>]
       ELSE IF ~HasField(currentInput, "ITEMS") \/ Len(currentInput.ITEMS) = 0
       THEN [how |-> "rejected", value |-> TypeError, send |-> << >>]
       ELSE [how |-> "pending", value |-> NoValue,
             send |-> << sendRequest(id, "modify", "put", PATH_CURRENT, key,
                                     inputModifyData(inputName.value, currentInput)) >>]

\* the requests of call id with a given role
RequestsOf(id, role) == {i \in 1..Len(net) : net[i].call = id /\ net[i].role = role}

InputList(max) ==
    /\ Len(calls) < max
    /\ calls' = Append(calls, NewCall("input.list", Null))
    /\ net' = Append(net, sendRequest(Len(calls) + 1, "list", "get", PATH_INPUT, _authKey, NoBody))
    /\ UNCHANGED << session, history, device >>

InputCurrent(max) ==
    /\ Len(calls) < max
    /\ calls' = Append(calls, NewCall("input.current", Null))
    /\ net' = Append(net, sendRequest(Len(calls) + 1, "current", "get", PATH_CURRENT, _authKey, NoBody))
    /\ UNCHANGED << session, history, device >>

InputSet(max, names) ==
    /\ Len(calls) < max
    /\ \E name \in names :
         LET id == Len(calls) + 1
         IN /\ calls' = Append(calls, NewCall("input.set", name))
            /\ net' = net \o << sendRequest(id, "list", "get", PATH_INPUT, _authKey, NoBody),
                                sendRequest(id, "current", "get", PATH_CURRENT, _authKey, NoBody) >>
    /\ UNCHANGED << session, history, device >>

\* the answers the transport can give to a read in flight
ReadAnswers(role) ==
    {Response(b) : b \in IF role = "list" THEN ListBodies ELSE CurrentBodies}
    \cup TransportErrors

\* input.list() / input.current() called directly: the transport's promise
DeliverRead ==
    \E role \in {"list", "current"} :
      \E i \in InFlight(role), ans \in ReadAnswers(role) :
        /\ calls[net[i].call].op # "input.set"
        /\ net' = [net EXCEPT ![i] = Answered(@, ans)]
        /\ calls' = [calls EXCEPT ![net[i].call] =
                        Settle(@, IF ans.kind = "response" THEN "resolved" ELSE "rejected", ans)]
        /\ lastReadHash' = IF role = "current" THEN ReadHash(ans, lastReadHash) ELSE lastReadHash
        /\ UNCHANGED << session, history, devInputs, devHash, faults >>

\* one of the two reads of input.set completes: Promise.all rejects on the
\* first failure and runs the handler once both reads are fulfilled
DeliverSetRead ==
    \E role \in {"list", "current"} :
      \E i \in InFlight(role), ans \in ReadAnswers(role) :
        LET id == net[i].call
            other == IF role = "list" THEN "current" ELSE "list"
            c == IF ans.kind # "response" THEN calls[id]
                 ELSE IF role = "list" THEN [calls[id] EXCEPT !.list = ans]
                 ELSE [calls[id] EXCEPT !.current = ans]
            joined == c.list.kind = "response" /\ c.current.kind = "response"
            out == inputSetThen(id, c.arg, c.list.data, c.current.data, _authKey)
        IN /\ calls[id].op = "input.set"
           /\ lastReadHash' = IF role = "current" THEN ReadHash(ans, lastReadHash) ELSE lastReadHash
           /\ IF ans.kind # "response"
              THEN /\ calls' = [calls EXCEPT ![id] = SettleOnce(c, "rejected", ans)]
                   /\ net' = [net EXCEPT ![i] = Answered(@, ans)]
              ELSE IF joined
              THEN /\ calls' = [calls EXCEPT ![id] =
                                  IF out.how = "pending" THEN c ELSE SettleOnce(c, out.how, out.value)]
                   /\ net' = [net EXCEPT ![i] = Answered(@, ans)] \o out.send
              ELSE /\ calls' = [calls EXCEPT ![id] = c]
                   /\ net' = [net EXCEPT ![i] = Answered(@, ans)]
           /\ UNCHANGED << session, history, devInputs, devHash, faults >>

\* the modify of input.set is answered: .then(resolve).catch(reject)
DeliverModify ==
    \E i \in InFlight("modify") :
       LET ans == Response(ModifyBody(net[i]))
       IN /\ net' = [net EXCEPT ![i] = Answered(@, ans)]
          /\ calls' = [calls EXCEPT ![net[i].call] = SettleOnce(@, "resolved", ans)]
          /\ devHash' = HashAfter(net[i])
          /\ UNCHANGED << session, history, devInputs, lastReadHash, faults >>

FailModify ==
    \E i \in InFlight("modify"), e \in TransportErrors :
       /\ net' = [net EXCEPT ![i] = Answered(@, e)]
       /\ calls' = [calls EXCEPT ![net[i].call] = SettleOnce(@, "rejected", e)]
       /\ UNCHANGED << session, history, device >>

-----------------------------------------------------------------------------
(* Power, key commands and volume *)

\* a plain answer of the device: a status and nothing the session reads
PlainBodies ==
    { [STATUS |-> [RESULT |-> "SUCCESS"]] }
    \cup IF faults THEN { [STATUS |-> [RESULT |-> "FAILURE"]] } ELSE {}

\* keyData(codeset, code, action); KEY_ACTION is the field ACTION
keyData(codeset, code, action) ==
    [KEYLIST |-> << [CODESET |-> codeset, CODE |-> code,
                     KEY_ACTION |-> IF Truthy(action) THEN action ELSE "KEYPRESS"] >>]

\* the key-command wrappers of this.control and their (codeset, code)
Wrappers ==
    [ volumeDown |-> <<5, 0>>, volumeUp |-> <<5, 1>>, unmute |-> <<5, 2>>,
      mute |-> <<5, 3>>, toggleMute |-> <<5, 4>>, inputCycle |-> <<7, 1>>,
      powerOff |-> <<11, 0>>, powerOn |-> <<11, 1>>, powerToggle |-> <<11, 2>>,
      seekForward |-> <<2, 0>>, seekBack |-> <<2, 1>>, play |-> <<2, 3>>,
      pause |-> <<2, 2>>, cc |-> <<4, 4>>, menu |-> <<4, 8>>, info |-> <<4, 6>>,
      smartcast |-> <<4, 3>> ]

KeyArgs == {<<5, 1, Null>>, <<4, 8, "KEYDOWN">>}

\* the request of control.keyCommand(codeset, code, action)
keyCommand(id, codeset, code, action, key) ==
    sendRequest(id, "key", "put", PATH_KEY, key, keyData(codeset, code, action))

PowerCurrentMode(max) ==
    /\ Len(calls) < max
    /\ calls' = Append(calls, NewCall("power.currentMode", Null))
    /\ net' = Append(net, sendRequest(Len(calls) + 1, "power", "get", PATH_POWER, Null, NoBody))
    /\ UNCHANGED << session, history, device >>

KeyCommand(max) ==
    /\ Len(calls) < max
    /\ \E a \in KeyArgs :
         /\ calls' = Append(calls, NewCall("control.keyCommand", a))
         /\ net' = Append(net, keyCommand(Len(calls) + 1, a[1], a[2], a[3], _authKey))
    /\ UNCHANGED << session, history, device >>

KeyWrapper(max) ==
    /\ Len(calls) < max
    /\ \E w \in DOMAIN Wrappers :
         /\ calls' = Append(calls, NewCall("control.wrapper", w))
         /\ net' = Append(net, keyCommand(Len(calls) + 1, Wrappers[w][1], Wrappers[w][2], Null, _authKey))
    /\ UNCHANGED << session, history, device >>

\* the transport's promise is the promise returned: fulfilled with the body
DeliverPassThrough(role) ==
    \E i \in InFlight(role), data \in PlainBodies :
       /\ net' = [net EXCEPT ![i] = Answered(@, Response(data))]
       /\ calls' = [calls EXCEPT ![net[i].call] = Settle(@, "resolved", Response(data))]
       /\ UNCHANGED << session, history, device >>

DeliverPower == DeliverPassThrough("power")
DeliverKey == DeliverPassThrough("key")
FailPower == FailPassThrough("power")
FailKey == FailPassThrough("key")

VolumeGet(max) ==
    /\ Len(calls) < max
    /\ calls' = Append(calls, NewCall("control.volume.get", Null))
    /\ net' = Append(net, sendRequest(Len(calls) + 1, "volume", "get", PATH_VOLUME_GET, _authKey, NoBody))
    /\ UNCHANGED << session, history, device >>

GetMuteState(max) ==
    /\ Len(calls) < max
    /\ calls' = Append(calls, NewCall("control.volume.getMuteState", Null))
    /\ net' = Append(net, sendRequest(Len(calls) + 1, "mute", "get", PATH_MUTE, _authKey, NoBody))
    /\ UNCHANGED << session, history, device >>

\* new Promise((resolve) => sendRequest(...).then(resolve)): how the returned
\* promise stands after the request was answered with ans
resolveOnly(c, ans) ==
    IF ans.kind = "response" THEN SettleOnce(c, "resolved", ans) ELSE c

\* volume.get / getMuteState: the request is answered or fails
DeliverResolveOnly ==
    \E role \in {"volume", "mute"} :
      \E i \in InFlight(role), ans \in {Response(b) : b \in PlainBodies} \cup TransportErrors :
        /\ net' = [net EXCEPT ![i] = Answered(@, ans)]
        /\ calls' = [calls EXCEPT ![net[i].call] = resolveOnly(@, ans)]
        /\ UNCHANGED << session, history, device >>

\* a volume argument: its typeof, and its value as a number (in tenths) once
\* the comparison operators have converted it
Num(t) == [type |-> "number", nan |-> FALSE, tenths |-> t]
Str(t) == [type |-> "string", nan |-> FALSE, tenths |-> t]
StrNaN == [type |-> "string", nan |-> TRUE, tenths |-> 0]

VolumeArgs == {Num(-10), Num(0), Num(420), Num(425), Num(1000), Num(1500), Str(1500), StrNaN}

\* value < 0 || value > 100 (false for NaN)
OutOfRange(v) == ~v.nan /\ (v.tenths < 0 \/ v.tenths > 1000)

\* Math.round of a number in tenths
MathRound(t) == (t + 5) \div 10

TypeMessage == Message("value must be a number")
RangeMessage == Message("value is out of range, please enter a number between 0 to 100 inclusive")

\* this.settings: the constructor assigns this.power, this.pairing, this.input
\* and this.control and nothing else, so this.settings is undefined and
\* this.settings.audio.get() throws a TypeError
thisSettings == [defined |-> FALSE]

\* lines 210-221, the handler of the settings read (never run: the read throws)
volumeModifyData(value, settings) ==
    LET volume == {k \in 1..Len(settings.ITEMS) : settings.ITEMS[k].CNAME = "volume"}
    IN [REQUEST |-> "MODIFY",
        HASHVAL |-> settings.ITEMS[CHOOSE k \in volume : \A m \in volume : k <= m].HASHVAL,
        VALUE |-> MathRound(value.tenths)]

\* the executor of volume.set without the range check
volumeSetExecutor_NoRangeCheck(c, value) ==
    LET c1 == IF value.type # "number" THEN SettleOnce(c, "rejected", TypeMessage) ELSE c
    IN IF thisSettings.defined THEN c1 ELSE SettleOnce(c1, "rejected", TypeError)

\* the executor of volume.set: both checks reject without returning, then
\* this.settings.audio.get() is evaluated and throws before any request is
\* made; the throw rejects the promise unless a check already did
volumeSetExecutor(c, value) ==
    LET c1 == IF value.type # "number" THEN SettleOnce(c, "rejected", TypeMessage) ELSE c
        c2 == IF OutOfRange(value) THEN SettleOnce(c1, "rejected", RangeMessage) ELSE c1
    IN IF thisSettings.defined THEN c2 ELSE SettleOnce(c2, "rejected", TypeError)

VolumeSet(max) ==
    /\ Len(calls) < max
    /\ \E value \in VolumeArgs :
         /\ calls' = Append(calls, volumeSetExecutor(NewCall("control.volume.set", value), value))
    /\ UNCHANGED << net, session, history, device >>

-----------------------------------------------------------------------------
(* The session after construction *)

CtorArgs == {Null, "authA"}

InitSession ==
    /\ ctorArg \in CtorArgs
    /\ _authKey = OrElse(ctorArg, "")
    /\ _pairingRequestToken = ""
    /\ _deviceId = ""
    /\ _deviceName = ""
    /\ calls = << >>
    /\ net = << >>
    /\ lastUse = Null

InitPairing ==
    /\ InitSession
    /\ devInputs = << >>
    /\ devHash = 0
    /\ lastReadHash = NoHash
    /\ faults = TRUE

NextPairing ==
    \/ PairingInitiate(MaxPairCalls)
    \/ PairingPair(MaxPairCalls)
    \/ UseAuthToken(MaxPairCalls)
    \/ DeliverInitiate
    \/ DeliverPair
    \/ FailInitiate
    \/ FailPair

SpecPairing == InitPairing /\ [][NextPairing]_vars

\* the input lookup: any input list, against a device that answers
InitLookup ==
    /\ InitSession
    /\ devInputs \in InputLists
    /\ devHash = 0
    /\ lastReadHash = NoHash
    /\ faults = FALSE

NextLookup ==
    \/ InputSet(MaxLookupCalls, NamePool)
    \/ DeliverSetRead
    \/ DeliverModify

SpecLookup == InitLookup /\ [][NextLookup]_vars

\* concurrent input calls against one device
InitInput ==
    /\ InitSession
    /\ devInputs = << [NAME |-> <<"a">>, VALUE |-> [NAME |-> <<"B">>]] >>
    /\ devHash = 0
    /\ lastReadHash = NoHash
    /\ faults = FALSE

NextInput ==
    \/ InputSet(MaxInputCalls, {<<"A">>, <<"b">>})
    \/ InputCurrent(MaxInputCalls)
    \/ DeliverRead
    \/ DeliverSetRead
    \/ DeliverModify

SpecInput == InitInput /\ [][NextInput]_vars

\* the whole session
Init ==
    /\ InitSession
    /\ devInputs = << [NAME |-> <<"a">>, VALUE |-> [NAME |-> <<"B">>]] >>
    /\ devHash = 0
    /\ lastReadHash = NoHash
    /\ faults = TRUE

Next ==
    \/ PowerCurrentMode(MaxCalls)
    \/ PairingInitiate(MaxCalls)
    \/ PairingPair(MaxCalls)
    \/ UseAuthToken(MaxCalls)
    \/ InputList(MaxCalls)
    \/ InputCurrent(MaxCalls)
    \/ InputSet(MaxCalls, NamePool)
    \/ KeyCommand(MaxCalls)
    \/ KeyWrapper(MaxCalls)
    \/ VolumeGet(MaxCalls)
    \/ GetMuteState(MaxCalls)
    \/ VolumeSet(MaxCalls)
    \/ DeliverPower
    \/ FailPower
    \/ DeliverInitiate
    \/ FailInitiate
    \/ DeliverPair
    \/ FailPair
    \/ DeliverRead
    \/ DeliverSetRead
    \/ DeliverModify
    \/ FailModify
    \/ DeliverKey
    \/ FailKey
    \/ DeliverResolveOnly

Spec == Init /\ [][Next]_vars

\* the volume accessors
NextVolume ==
    \/ VolumeSet(MaxVolumeCalls)
    \/ VolumeGet(MaxVolumeCalls)
    \/ GetMuteState(MaxVolumeCalls)
    \/ UseAuthToken(MaxVolumeCalls)
    \/ DeliverResolveOnly

SpecVolume == Init /\ [][NextVolume]_vars

\* every operation that sends a request, against a device that answers
InitAuth ==
    /\ InitSession
    /\ devInputs = << [NAME |-> <<"a">>, VALUE |-> [NAME |-> <<"B">>]] >>
    /\ devHash = 0
    /\ lastReadHash = NoHash
    /\ faults = FALSE

NextAuth ==
    \/ PowerCurrentMode(MaxAuthCalls)
    \/ PairingInitiate(MaxAuthCalls)
    \/ PairingPair(MaxAuthCalls)
    \/ UseAuthToken(MaxAuthCalls)
    \/ InputList(MaxAuthCalls)
    \/ InputCurrent(MaxAuthCalls)
    \/ InputSet(MaxAuthCalls, NamePool)
    \/ KeyCommand(MaxAuthCalls)
    \/ KeyWrapper(MaxAuthCalls)
    \/ VolumeGet(MaxAuthCalls)
    \/ GetMuteState(MaxAuthCalls)
    \/ VolumeSet(MaxAuthCalls)
    \/ DeliverPair
    \/ DeliverSetRead
    \/ DeliverModify

SpecAuth == InitAuth /\ [][NextAuth]_vars

-----------------------------------------------------------------------------
(* Properties *)

\* the requests answered in this step
AnsweredNow(role) ==
    {i \in 1..Len(net) : net[i].role = role /\ net[i].state = "inflight"
                         /\ net'[i].state # "inflight"}

\* the requests sent in this step
SentNow == (Len(net) + 1)..Len(net')

\* the calls made in this step
CalledNow(op) == {c \in (Len(calls) + 1)..Len(calls') : calls'[c].op = op}

CallsOf(op) == {c \in 1..Len(calls) : calls[c].op = op}

Succeeded(r) == r.state = "ok" /\ r.answer.data.STATUS.RESULT = "SUCCESS"

\* C1: the stored auth token starts as the constructor's value (empty by
\* default) and afterwards changes only to the argument of a useAuthToken
\* call made in that step or to the AUTH_TOKEN of a pair answer with
\* STATUS.RESULT = SUCCESS arriving in that step; such an answer always
\* stores exactly its AUTH_TOKEN, whatever pairing-request token (also the
\* empty one) the pair request carried.
C1_TokenProvenance ==
    /\ _authKey = (IF ctorArg = Null THEN "" ELSE ctorArg)
    /\ [][ /\ \A i \in AnsweredNow("pair") :
                Succeeded(net'[i]) => _authKey' = net'[i].answer.data.ITEM.AUTH_TOKEN
           /\ _authKey' # _authKey =>
                \/ \E c \in CalledNow("pairing.useAuthToken") : _authKey' = calls'[c].arg
                \/ \E i \in AnsweredNow("pair") :
                      /\ Succeeded(net'[i])
                      /\ _authKey' = net'[i].answer.data.ITEM.AUTH_TOKEN ]_vars

\* C1 witness: no token from the constructor or useAuthToken, a pair sent
\* after a successful initiate was answered SUCCESS, and the session holds
\* the token of that answer.
C1_Witness ==
    /\ ctorArg = Null
    /\ lastUse = Null
    /\ \E i \in 1..Len(net) :
          /\ net[i].role = "pair"
          /\ net[i].body.PAIRING_REQ_TOKEN # ""
          /\ Succeeded(net[i])
          /\ _authKey = net[i].answer.data.ITEM.AUTH_TOKEN

\* C2: when an initiate request is answered BLOCKED the returned promise
\* rejects with the pairing-already-in-progress message, which is not the
\* raw response; any other non-success answer rejects with the raw response;
\* and neither the initiate call nor its non-success answer changes the
\* stored pairing-request token or the stored auth token.
C2_BlockedIsDistinct ==
    [][ /\ \A i \in AnsweredNow("initiate") :
             LET ans == net'[i].answer
                 c == calls'[net[i].call]
             IN (ans.kind = "response" /\ ans.data.STATUS.RESULT # "SUCCESS") =>
                   /\ c.promise = "rejected"
                   /\ _pairingRequestToken' = _pairingRequestToken
                   /\ _authKey' = _authKey
                   /\ IF ans.data.STATUS.RESULT = "BLOCKED"
                      THEN c.value = BlockedMessage /\ c.value # ans
                      ELSE c.value = ans
        /\ CalledNow("pairing.initiate") # {} =>
             /\ _pairingRequestToken' = _pairingRequestToken
             /\ _authKey' = _authKey ]_vars

\* C2 witness: an initiate answered BLOCKED, its promise rejected with the
\* message, while a pairing-request token stored earlier is still held.
C2_Witness ==
    \E i \in 1..Len(net) :
       /\ net[i].role = "initiate"
       /\ net[i].state = "ok"
       /\ net[i].answer.data.STATUS.RESULT = "BLOCKED"
       /\ calls[net[i].call].promise = "rejected"
       /\ calls[net[i].call].value = BlockedMessage
       /\ _pairingRequestToken \in ReqTokens

\* C3 as claimed: the stored pairing-request token is discarded when a pair
\* answer with SUCCESS arrives and when a new initiate call starts.
C3_TokenDiscarded ==
    [][ /\ (\E i \in AnsweredNow("pair") : Succeeded(net'[i])) => _pairingRequestToken' = ""
        /\ CalledNow("pairing.initiate") # {} => _pairingRequestToken' = "" ]_vars

\* C3 amended: the stored pairing-request token is never discarded; it
\* changes only when an initiate answer with SUCCESS arrives, to the token
\* of that answer, and every pair request carries the token stored when it
\* is sent.
C3_TokenKept ==
    [][ /\ _pairingRequestToken' # _pairingRequestToken =>
             \E i \in AnsweredNow("initiate") :
                /\ Succeeded(net'[i])
                /\ _pairingRequestToken' = net'[i].answer.data.ITEM.PAIRING_REQ_TOKEN
        /\ \A i \in SentNow :
             net'[i].role = "pair" => net'[i].body.PAIRING_REQ_TOKEN = _pairingRequestToken ]_vars

\* C3 witness: a pair answered SUCCESS, its pairing-request token still
\* stored, and a later pair request carrying that same token.
C3_Witness ==
    \E i, j \in 1..Len(net) :
       /\ i < j
       /\ net[i].role = "pair" /\ net[j].role = "pair"
       /\ Succeeded(net[i])
       /\ net[i].body.PAIRING_REQ_TOKEN \in ReqTokens
       /\ net[j].body.PAIRING_REQ_TOKEN = net[i].body.PAIRING_REQ_TOKEN
       /\ _pairingRequestToken = net[i].body.PAIRING_REQ_TOKEN

\* C4 as claimed: every request other than the two pairing requests carries
\* an AUTH header whose value is the stored auth token, and the two pairing
\* requests carry none.
C4_EveryRequestAuthorized ==
    [][ \A i \in SentNow :
          IF net'[i].role \in {"initiate", "pair"}
          THEN net'[i].AUTH = NoHeader
          ELSE net'[i].AUTH = _authKey ]_vars

\* C4 amended: a request of power.currentMode, pairing.initiate or
\* pairing.pair never carries an AUTH header; every other request carries
\* AUTH = the auth token stored when it is sent if that token is not empty,
\* and no AUTH header if it is empty.
C4_AuthWhenTokenPresent ==
    [][ \A i \in SentNow :
          IF net'[i].role \in {"initiate", "pair", "power"}
          THEN net'[i].AUTH = NoHeader
          ELSE IF _authKey # ""
          THEN net'[i].AUTH = _authKey
          ELSE net'[i].AUTH = NoHeader ]_vars

\* C4 witness: the modify of an input.set sent with the token stored at
\* that moment, after its reads were sent without a header.
C4_Witness ==
    \E i, j \in 1..Len(net) :
       /\ net[i].call = net[j].call
       /\ net[i].role = "current" /\ net[i].AUTH = NoHeader
       /\ net[j].role = "modify" /\ net[j].AUTH \in AuthTokens
       /\ net[j].AUTH = _authKey

\* C5 as claimed: once a request of a call has failed, the promise the call
\* returned is rejected with the error of a failed request of that call.
C5_FailureRejects ==
    \A i \in 1..Len(net) :
       net[i].state = "failed" =>
          /\ calls[net[i].call].promise = "rejected"
          /\ \E k \in 1..Len(net) :
                /\ net[k].call = net[i].call
                /\ net[k].state = "failed"
                /\ calls[net[i].call].value = net[k].answer

\* two names are equal but for the case of their letters
SameIgnoringCase(x, y) ==
    /\ Len(x) = Len(y)
    /\ \A k \in 1..Len(x) :
          \/ x[k] = y[k]
          \/ {x[k], y[k]} \in {{"a", "A"}, {"b", "B"}}

Least(S) == CHOOSE k \in S : \A m \in S : k <= m

InternalMatches(name, items) == {k \in 1..Len(items) : SameIgnoringCase(items[k].NAME, name)}
DisplayMatches(name, items) == {k \in 1..Len(items) : SameIgnoringCase(items[k].VALUE.NAME, name)}

\* the item input.set is to select: the first match by internal name, else
\* the first match by display name
MatchedItem(name, items) ==
    IF InternalMatches(name, items) # {}
    THEN items[Least(InternalMatches(name, items))]
    ELSE items[Least(DisplayMatches(name, items))]

BothSucceeded(c) ==
    /\ calls[c].list.kind = "response"
    /\ calls[c].current.kind = "response"
    /\ calls[c].list.data.STATUS.RESULT = "SUCCESS"
    /\ calls[c].current.data.STATUS.RESULT = "SUCCESS"

\* C6: once both reads of an input.set(name) have reported SUCCESS, if an
\* item matches the name (letter case ignored) by internal name or by
\* display name, exactly one modify request has been sent, with REQUEST =
\* "MODIFY" and VALUE = the internal name of the first item matching by
\* internal name, or of the first item matching by display name when none
\* matches by internal name; if no item matches, no modify is sent.
C6_InternalNameWins ==
    \A c \in CallsOf("input.set") :
       BothSucceeded(c) =>
          LET items == calls[c].list.data.ITEMS
              name == calls[c].arg
              mods == RequestsOf(c, "modify")
          IN IF InternalMatches(name, items) \cup DisplayMatches(name, items) = {}
             THEN mods = {} /\ calls[c].promise = "rejected"
             ELSE /\ Cardinality(mods) = 1
                  /\ \A m \in mods :
                        /\ net[m].body.REQUEST = "MODIFY"
                        /\ net[m].body.VALUE = MatchedItem(name, items).NAME

\* C6 witness: the first item matches the name only by display name, the
\* second by internal name, and the modify carries the second's internal
\* name, which is not the display string of the first.
C6_Witness ==
    \E c \in CallsOf("input.set") :
       /\ BothSucceeded(c)
       /\ Len(calls[c].list.data.ITEMS) = 2
       /\ 1 \in DisplayMatches(calls[c].arg, calls[c].list.data.ITEMS)
       /\ InternalMatches(calls[c].arg, calls[c].list.data.ITEMS) = {2}
       /\ \E m \in RequestsOf(c, "modify") :
             /\ net[m].body.VALUE = calls[c].list.data.ITEMS[2].NAME
             /\ net[m].body.VALUE # calls[c].list.data.ITEMS[1].NAME
             /\ net[m].body.VALUE # calls[c].list.data.ITEMS[1].VALUE.NAME

InvalidVolume(v) == v.type # "number" \/ OutOfRange(v)

RequestsOfCall(c) == {i \in 1..Len(net) : net[i].call = c}

\* C7: a volume.set whose value is not a number, or is below 0 or above
\* 100, is rejected with the type or the range message and has sent no
\* request.
C7_InvalidVolumeSendsNothing ==
    \A c \in CallsOf("control.volume.set") :
       InvalidVolume(calls[c].arg) =>
          /\ calls[c].promise = "rejected"
          /\ calls[c].value \in {TypeMessage, RangeMessage}
          /\ (calls[c].arg.type = "number" => calls[c].value = RangeMessage)
          /\ RequestsOfCall(c) = {}

\* C7 witness: volume.set(150) and volume.set(-1) both rejected with the
\* range message, no request sent.
C7_Witness ==
    \E c, d \in CallsOf("control.volume.set") :
       /\ calls[c].arg = Num(1500) /\ calls[d].arg = Num(-10)
       /\ calls[c].value = RangeMessage /\ calls[d].value = RangeMessage
       /\ net = << >>

\* C8 as claimed: a volume.set with a number in [0, 100] has sent a read of
\* the volume settings, is not rejected unless a request of its failed, and
\* sends at most one PUT to the volume endpoint, with REQUEST = "MODIFY" and
\* VALUE = the value rounded.
C8_ValidVolumeReadsThenModifies ==
    \A c \in CallsOf("control.volume.set") :
       ~InvalidVolume(calls[c].arg) =>
          /\ \E i \in RequestsOfCall(c) : net[i].method = "get"
          /\ (calls[c].promise = "rejected" =>
                 \E i \in RequestsOfCall(c) : net[i].state = "failed")
          /\ \A i \in RequestsOfCall(c) :
                net[i].url = PATH_VOLUME_PUT =>
                   /\ net[i].body.REQUEST = "MODIFY"
                   /\ net[i].body.VALUE = MathRound(calls[c].arg.tenths)

\* C9 as claimed: once both reads of an input.set have resolved and one of
\* them does not report SUCCESS, the promise is rejected with {list,
\* current} holding both raw responses, and no modify is sent.
C9_StructuredError ==
    \A c \in CallsOf("input.set") :
       ( /\ calls[c].list.kind = "response"
         /\ calls[c].current.kind = "response"
         /\ \/ calls[c].list.data.STATUS.RESULT # "SUCCESS"
            \/ calls[c].current.data.STATUS.RESULT # "SUCCESS" ) =>
          /\ calls[c].promise = "rejected"
          /\ calls[c].value = Structured(calls[c].list.data, calls[c].current.data)
          /\ RequestsOf(c, "modify") = {}

\* C10 as claimed: every modify request carries the HASHVAL shown by the
\* most recent current_input read of the session completed before the
\* modify is sent.
C10_LatestSessionRead ==
    [][ \A i \in SentNow :
          net'[i].role = "modify" => net'[i].body.HASHVAL = lastReadHash' ]_vars

\* C10 amended: every modify request of an input.set carries the HASHVAL
\* shown by that same call's own current_input read, which was answered
\* before the modify was sent (it may be older than a read completed since
\* by another call); a call sends at most one modify, and once the modify is
\* answered, accepted or refused as stale, the call's promise is settled
\* with that answer.
C10_OwnRead ==
    \A c \in CallsOf("input.set") :
       /\ Cardinality(RequestsOf(c, "modify")) <= 1
       /\ \A m \in RequestsOf(c, "modify") :
             /\ \E r \in RequestsOf(c, "current") :
                   /\ r < m
                   /\ net[r].state = "ok"
                   /\ net[m].body.HASHVAL = net[r].answer.data.ITEMS[1].HASHVAL
             /\ net[m].state # "inflight" =>
                   /\ calls[c].promise # "pending"
                   /\ calls[c].value = net[m].answer

\* C10 witness: a modify refused as stale, surfaced to its caller, while
\* another modify of the session was accepted.
C10_Witness ==
    \E m, n \in 1..Len(net) :
       /\ net[m].role = "modify" /\ net[n].role = "modify"
       /\ Succeeded(net[n])
       /\ net[m].state = "ok"
       /\ net[m].answer.data.STATUS.RESULT = "FAILURE"
       /\ calls[net[m].call].promise = "resolved"
       /\ calls[net[m].call].value = net[m].answer
       /\ Cardinality(RequestsOf(net[m].call, "modify")) = 1

====
